---- MODULE Spec2Model ----
(***************************************************************************)
(* Model of service/player.go: the player registry (bucket "players") and  *)
(* the whitelist (bucket "whitelist") kept in one bbolt database.          *)
(*                                                                         *)
(* Strings are sequences of byte values, so that strings.Contains, the     *)
(* "|"-joined whitelist key and bbolt's byte-wise key order are computed   *)
(* as the code computes them.  A bucket is a function from keys to stored  *)
(* values; a stored value is the encoded record (the tuple of its fields   *)
(* in declaration order), decoded again by every reader.                   *)
(***************************************************************************)
EXTENDS Integers, Sequences, FiniteSets, TLC

(***************************************************************************)
(* Bounds of the exploration.                                              *)
(***************************************************************************)
MaxSteps == 2      \* calls made on the player registry in one behaviour
MaxWlSteps == 3    \* calls made on the whitelist in one behaviour
MaxBatch == 2      \* longest slice handed to PutPlayers / PutPlayersOnline / PutWhitelist

(***************************************************************************)
(* Strings.                                                                *)
(***************************************************************************)
EmptyStr == << >>

\* "000000", the literal of player.go:94 and player.go:122
ZeroPattern == <<48, 48, 48, 48, 48, 48>>

\* "|", the separator of player.go:187
Sep == <<124>>

\* strings.Contains(s, sub)
Contains(s, sub) ==
    \E i \in 1..(Len(s) - Len(sub) + 1) : SubSeq(s, i, i + Len(sub) - 1) = sub

\* bytes.Compare(a, b) < 0 : the order in which bbolt iterates keys
KeyLess(a, b) ==
    \E i \in 1..Len(b) :
        /\ \A j \in 1..(i - 1) : j <= Len(a) /\ a[j] = b[j]
        /\ (i > Len(a) \/ a[i] < b[i])

(***************************************************************************)
(* Errors.                                                                 *)
(***************************************************************************)
Nil == "nil"
ErrKeyRequired == "key required"                       \* bbolt: Put with an empty key
ErrNoRecord == "no record"                             \* player.go:145
ErrBucketMissing == "whitelist bucket does not exist"  \* player.go:246
ErrNotInWhitelist == "player not found in whitelist"   \* player.go:254

(***************************************************************************)
(* bbolt bucket operations, as used by player.go.                          *)
(***************************************************************************)
EmptyBucket == [k \in {} |-> << >>]

Keys(b) == DOMAIN b

\* b.Get(key): the stored value, or nil
Has(b, key) == key \in DOMAIN b

\* b.Put(key, value) inside a writable transaction
BucketPut(b, key, value) ==
    IF Len(key) = 0
    THEN [err |-> ErrKeyRequired, bucket |-> b]
    ELSE [err |-> Nil,
          bucket |-> [k \in DOMAIN b \cup {key} |-> IF k = key THEN value ELSE b[k]]]

\* b.Delete(key): removing an absent key is not an error
BucketDelete(b, key) == [k \in DOMAIN b \ {key} |-> b[k]]

\* the keys of b in the order b.ForEach visits them
RECURSIVE SortedKeys(_)
SortedKeys(ks) ==
    IF ks = {} THEN << >>
    ELSE LET m == CHOOSE k \in ks : \A o \in ks \ {k} : KeyLess(k, o)
         IN <<m>> \o SortedKeys(ks \ {m})

ForEachOrder(b) == SortedKeys(DOMAIN b)

\* the same with the rollback left out
UpdateCommitAlways(before, after, err) == after

\* db.Update(fn): commit what fn wrote when fn returns nil, roll back otherwise
Update(before, after, err) == IF err = Nil THEN after ELSE before

(***************************************************************************)
(* Time.  A time.Time is <<year, month, day, hour, minute, second>>.       *)
(***************************************************************************)
ZeroTime == <<1, 1, 1, 0, 0, 0>>

\* time.Now() when the wall clock has ticked n times
ClockTime(n) == <<2024, 6, 1, 0, 0, n>>

IsDigit(c) == c \in 48..57

Num2(s, i) == (s[i] - 48) * 10 + (s[i + 1] - 48)

Num4(s, i) == Num2(s, i) * 100 + Num2(s, i + 2)

IsLeap(y) == (y % 4 = 0 /\ y % 100 # 0) \/ y % 400 = 0

DaysIn(y, m) ==
    IF m = 2 THEN (IF IsLeap(y) THEN 29 ELSE 28)
    ELSE IF m \in {4, 6, 9, 11} THEN 30 ELSE 31

\* time.Parse(time.RFC3339, s) for texts without fractional seconds and
\* without a numeric zone offset: "2006-01-02T15:04:05Z"
ParseRFC3339(s) ==
    LET shape == /\ Len(s) = 20
                 /\ \A i \in {1, 2, 3, 4, 6, 7, 9, 10, 12, 13, 15, 16, 18, 19} : IsDigit(s[i])
                 /\ s[5] = 45 /\ s[8] = 45 /\ s[11] = 84
                 /\ s[14] = 58 /\ s[17] = 58 /\ s[20] = 90
        t == <<Num4(s, 1), Num2(s, 6), Num2(s, 9), Num2(s, 12), Num2(s, 15), Num2(s, 18)>>
        ranges == /\ t[2] \in 1..12
                  /\ t[3] \in 1..DaysIn(t[1], t[2])
                  /\ t[4] \in 0..23 /\ t[5] \in 0..59 /\ t[6] \in 0..59
    IN IF shape /\ ranges THEN [ok |-> TRUE, time |-> t]
       ELSE [ok |-> FALSE, time |-> ZeroTime]

(***************************************************************************)
(* database.Player and its JSON encoding.                                  *)
(***************************************************************************)
\* json.Marshal(p) for a database.Player
MarshalPlayer(p) ==
    <<p.player_uid, p.steam_id, p.nickname, p.ip, p.ping, p.location_x,
      p.location_y, p.level, p.last_online, p.save_last_online>>

\* json.Unmarshal(v, &player) into a database.Player
UnmarshalPlayer(v) ==
    [player_uid |-> v[1], steam_id |-> v[2], nickname |-> v[3], ip |-> v[4],
     ping |-> v[5], location_x |-> v[6], location_y |-> v[7], level |-> v[8],
     last_online |-> v[9], save_last_online |-> v[10]]

\* json.Unmarshal(v, &player) into a database.TersePlayer
UnmarshalTerse(v) ==
    [player_uid |-> v[1], steam_id |-> v[2], nickname |-> v[3], level |-> v[8],
     last_online |-> v[9]]

\* var player database.Player : the zero value
ZeroPlayer ==
    [player_uid |-> EmptyStr, steam_id |-> EmptyStr, nickname |-> EmptyStr,
     ip |-> EmptyStr, ping |-> 0, location_x |-> 0, location_y |-> 0, level |-> 0,
     last_online |-> ZeroTime, save_last_online |-> EmptyStr]

(***************************************************************************)
(* State.                                                                  *)
(***************************************************************************)
VARIABLES
    db,      \* the committed database: the two buckets, and whether "whitelist" exists
    clock,   \* ticks of the wall clock read by time.Now()
    steps,   \* calls made so far
    call,    \* the last call: its name, its arguments and what it returned
    pre,     \* the committed database when the last call started
    written, \* whether AddWhitelist or PutWhitelist has been called so far
    rwlock,  \* the caller inside db.Update, which holds the writer lock
    txs,     \* the calls of concurrent callers and the state of their transactions
    commits  \* the committed database at the start and after each db.Update

vars == <<db, clock, steps, call, pre, written, rwlock, txs, commits>>

\* no caller holds the writer lock
NoCaller == "none"

(***************************************************************************)
(* PutPlayers (player.go:13-77).                                           *)
(***************************************************************************)
\* player.go:18-26 : the stored records by their decoded PlayerUid, read in
\* ForEach order (a later key overwrites the map entry of an earlier one).
\* Every stored value was written by json.Marshal, so decoding succeeds.
ExistingPlayers(b) ==
    LET order == ForEachOrder(b)
        uidAt(i) == UnmarshalPlayer(b[order[i]]).player_uid
        uids == {uidAt(i) : i \in 1..Len(order)}
        last(u) == CHOOSE i \in 1..Len(order) :
                      /\ uidAt(i) = u
                      /\ \A j \in (i + 1)..Len(order) : uidAt(j) # u
    IN [u \in uids |-> UnmarshalPlayer(b[order[last(u)]])]

\* player.go:32-35
NewPlayerUids(players) == {players[i].player_uid : i \in 1..Len(players)}

\* the same with a stored steam id preferred to the incoming one
CarryForwardStoredSteam(p, existingPlayer) ==
    [p EXCEPT !.steam_id = IF existingPlayer.steam_id # EmptyStr
                           THEN existingPlayer.steam_id
                           ELSE p.steam_id,
              !.ip = existingPlayer.ip,
              !.ping = existingPlayer.ping,
              !.location_x = existingPlayer.location_x,
              !.location_y = existingPlayer.location_y]

\* the same with only the steam id handed on
CarryForwardSteamOnly(p, existingPlayer) ==
    [p EXCEPT !.steam_id = IF p.steam_id = EmptyStr THEN existingPlayer.steam_id
                           ELSE p.steam_id]

\* player.go:41-49 : the fields an existing record hands to the incoming one
CarryForward(p, existingPlayer) ==
    [p EXCEPT !.steam_id = IF p.steam_id = EmptyStr THEN existingPlayer.steam_id
                           ELSE p.steam_id,
              !.ip = existingPlayer.ip,
              !.ping = existingPlayer.ping,
              !.location_x = existingPlayer.location_x,
              !.location_y = existingPlayer.location_y]

\* the same with the result of the parse taken whether or not it failed
ApplySaveLastOnlineUnchecked(p) ==
    IF p.save_last_online # EmptyStr
    THEN [p EXCEPT !.last_online = ParseRFC3339(p.save_last_online).time]
    ELSE p

\* player.go:51-55
ApplySaveLastOnline(p) ==
    IF p.save_last_online # EmptyStr /\ ParseRFC3339(p.save_last_online).ok
    THEN [p EXCEPT !.last_online = ParseRFC3339(p.save_last_online).time]
    ELSE p

\* player.go:39-55 : the record written for the incoming p
MergePlayer(p, existingPlayers) ==
    ApplySaveLastOnline(
        IF p.player_uid \in DOMAIN existingPlayers
        THEN CarryForward(p, existingPlayers[p.player_uid])
        ELSE p)

\* player.go:38-64 : the loop over the incoming players, from index i on
RECURSIVE PutEachPlayer(_, _, _, _)
PutEachPlayer(b, players, existingPlayers, i) ==
    IF i > Len(players) THEN [err |-> Nil, bucket |-> b]
    ELSE LET p == MergePlayer(players[i], existingPlayers)
             r == BucketPut(b, p.player_uid, MarshalPlayer(p))
         IN IF r.err # Nil THEN r
            ELSE PutEachPlayer(r.bucket, players, existingPlayers, i + 1)

\* the same with the test of line 68 negated
StalePlayerUidsInverted(existingPlayers, players) ==
    DOMAIN existingPlayers \cap NewPlayerUids(players)

\* the same with the deletion of stale records left out
StalePlayerUidsNone(existingPlayers, players) == {}

\* player.go:67-73 : the stored uids the roster no longer names
StalePlayerUids(existingPlayers, players) ==
    DOMAIN existingPlayers \ NewPlayerUids(players)

RECURSIVE DeleteEach(_, _)
DeleteEach(b, uids) ==
    IF uids = {} THEN b
    ELSE LET u == CHOOSE x \in uids : TRUE
         IN DeleteEach(BucketDelete(b, u), uids \ {u})

\* player.go:14-76 : the function run by db.Update
PutPlayersTx(b, players) ==
    LET existingPlayers == ExistingPlayers(b)
        r == PutEachPlayer(b, players, existingPlayers, 1)
    IN IF r.err # Nil THEN r
       ELSE [err |-> Nil,
             bucket |-> DeleteEach(r.bucket, StalePlayerUids(existingPlayers, players))]

(***************************************************************************)
(* PutPlayersOnline (player.go:79-115).                                    *)
(***************************************************************************)
\* the same without the test for the zero pattern
IsUnresolvedSteamIdEmptyOnly(steamId) == steamId = EmptyStr

\* player.go:94
IsUnresolvedSteamId(steamId) == steamId = EmptyStr \/ Contains(steamId, ZeroPattern)

\* the same with the player uid of a new record left unset
OnlineRecordNoUid(b, p, now) ==
    LET base == IF ~Has(b, p.player_uid)
                THEN [ZeroPlayer EXCEPT !.steam_id = p.steam_id,
                                        !.nickname = p.nickname]
                ELSE LET player == UnmarshalPlayer(b[p.player_uid])
                     IN IF IsUnresolvedSteamId(player.steam_id)
                        THEN [player EXCEPT !.steam_id = p.steam_id]
                        ELSE player
    IN [base EXCEPT !.ip = p.ip, !.ping = p.ping, !.location_x = p.location_x,
                    !.location_y = p.location_y, !.level = p.level,
                    !.last_online = now]

\* player.go:83-103 : the record written for the online player p, read at time now
OnlineRecord(b, p, now) ==
    LET base == IF ~Has(b, p.player_uid)
                THEN [ZeroPlayer EXCEPT !.player_uid = p.player_uid,
                                        !.steam_id = p.steam_id,
                                        !.nickname = p.nickname]
                ELSE LET player == UnmarshalPlayer(b[p.player_uid])
                     IN IF IsUnresolvedSteamId(player.steam_id)
                        THEN [player EXCEPT !.steam_id = p.steam_id]
                        ELSE player
    IN [base EXCEPT !.ip = p.ip, !.ping = p.ping, !.location_x = p.location_x,
                    !.location_y = p.location_y, !.level = p.level,
                    !.last_online = now]

\* player.go:82-112 : the loop, from index i on; time.Now() is read once per player
RECURSIVE PutEachOnline(_, _, _, _)
PutEachOnline(b, players, i, tick) ==
    IF i > Len(players) THEN [err |-> Nil, bucket |-> b]
    ELSE LET p == players[i]
             player == OnlineRecord(b, p, ClockTime(tick + i - 1))
             r == BucketPut(b, p.player_uid, MarshalPlayer(player))
         IN IF r.err # Nil THEN r
            ELSE PutEachOnline(r.bucket, players, i + 1, tick)

\* the same followed by the deletion of every record the batch does not name
PutPlayersOnlineSyncTx(b, players, tick) ==
    LET r == PutEachOnline(b, players, 1, tick)
    IN IF r.err # Nil THEN r
       ELSE [err |-> Nil,
             bucket |-> DeleteEach(r.bucket,
                                   DOMAIN b \ {players[i].player_uid : i \in 1..Len(players)})]

\* player.go:80-114 : the function run by db.Update
PutPlayersOnlineTx(b, players, tick) == PutEachOnline(b, players, 1, tick)

(***************************************************************************)
(* ListPlayers (player.go:117-137) and GetPlayer (player.go:139-156).      *)
(***************************************************************************)
\* the same without the filter on the key
IsListedKeyAll(k) == TRUE

\* player.go:122
IsListedKey(k) == ~Contains(k, ZeroPattern)

\* player.go:121-131 : the listed records, in ForEach order
RECURSIVE ListFrom(_, _, _)
ListFrom(b, order, i) ==
    IF i > Len(order) THEN << >>
    ELSE (IF IsListedKey(order[i]) THEN <<UnmarshalTerse(b[order[i]])>> ELSE << >>)
         \o ListFrom(b, order, i + 1)

ListPlayersView(b) == ListFrom(b, ForEachOrder(b), 1)

\* player.go:141-155
GetPlayerView(b, playerUid) ==
    IF ~Has(b, playerUid)
    THEN [err |-> ErrNoRecord, player |-> << >>]
    ELSE [err |-> Nil, player |-> <<UnmarshalPlayer(b[playerUid])>>]

(***************************************************************************)
(* database.PlayerW and its JSON encoding.                                 *)
(***************************************************************************)
\* json.Marshal(player) for a database.PlayerW
MarshalPlayerW(player) == <<player.name, player.steam_id, player.player_uid>>

\* json.Unmarshal(v, &player) into a database.PlayerW
UnmarshalPlayerW(v) == [name |-> v[1], steam_id |-> v[2], player_uid |-> v[3]]

(***************************************************************************)
(* The whitelist (player.go:158-314).  wl is the "whitelist" bucket of the *)
(* transaction: [exists |-> whether the bucket exists, bucket |-> its      *)
(* content].                                                               *)
(***************************************************************************)
\* tx.CreateBucketIfNotExists([]byte("whitelist"))
CreateBucketIfNotExists(wl) == [exists |-> TRUE, bucket |-> wl.bucket]

\* the same with the name compared by # instead of =
matchesCriteriaNameDiffers(existingPlayer, player) ==
    \/ player.player_uid # EmptyStr /\ existingPlayer.player_uid = player.player_uid
    \/ player.name # EmptyStr /\ existingPlayer.name # player.name
    \/ player.steam_id # EmptyStr /\ existingPlayer.steam_id = player.steam_id

\* player.go:262-277
matchesCriteria(existingPlayer, player) ==
    \/ player.player_uid # EmptyStr /\ existingPlayer.player_uid = player.player_uid
    \/ player.name # EmptyStr /\ existingPlayer.name = player.name
    \/ player.steam_id # EmptyStr /\ existingPlayer.steam_id = player.steam_id

\* the same returning the last matching key instead of the first
findPlayerKeyLast(b, player) ==
    LET order == ForEachOrder(b)
        hits == {i \in 1..Len(order) :
                    matchesCriteria(UnmarshalPlayerW(b[order[i]]), player)}
    IN IF hits = {} THEN [found |-> FALSE, key |-> EmptyStr]
       ELSE [found |-> TRUE,
             key |-> order[CHOOSE i \in hits : \A j \in hits : i >= j]]

\* player.go:220-239 : the key of the first entry, in ForEach order, that
\* matches player; found is FALSE when the returned key is nil
findPlayerKey(b, player) ==
    LET order == ForEachOrder(b)
        hits == {i \in 1..Len(order) :
                    matchesCriteria(UnmarshalPlayerW(b[order[i]]), player)}
    IN IF hits = {} THEN [found |-> FALSE, key |-> EmptyStr]
       ELSE [found |-> TRUE,
             key |-> order[CHOOSE i \in hits : \A j \in hits : i <= j]]

\* player.go:187
NewPlayerKey(player) ==
    player.name \o Sep \o player.steam_id \o Sep \o player.player_uid

\* player.go:159-194 : the function run by db.Update
AddWhitelistTx(wl, player) ==
    LET b == CreateBucketIfNotExists(wl).bucket
        playerData == MarshalPlayerW(player)
        k == findPlayerKey(b, player)
        r == IF k.found THEN BucketPut(b, k.key, playerData)
             ELSE BucketPut(b, NewPlayerKey(player), playerData)
    IN [err |-> r.err, wl |-> [exists |-> TRUE, bucket |-> r.bucket]]

\* the same without the test for a missing bucket
RemoveWhitelistNoBucketCheck(wl, player) ==
    LET k == findPlayerKey(wl.bucket, player)
    IN IF ~k.found THEN [err |-> ErrNotInWhitelist, wl |-> wl]
       ELSE [err |-> Nil,
             wl |-> [exists |-> TRUE, bucket |-> BucketDelete(wl.bucket, k.key)]]

\* player.go:243-258 : the function run by db.Update
RemoveWhitelistTx(wl, player) ==
    IF ~wl.exists THEN [err |-> ErrBucketMissing, wl |-> wl]
    ELSE LET k == findPlayerKey(wl.bucket, player)
         IN IF ~k.found THEN [err |-> ErrNotInWhitelist, wl |-> wl]
            ELSE [err |-> Nil,
                  wl |-> [exists |-> TRUE, bucket |-> BucketDelete(wl.bucket, k.key)]]

\* player.go:288-290 : b.Delete(k) for every key ForEach visits.  The
\* iteration walks the pages the transaction started from, which the
\* deletions do not touch, so every stored key is visited.
RECURSIVE ClearFrom(_, _, _)
ClearFrom(b, order, i) ==
    IF i > Len(order) THEN b
    ELSE ClearFrom(BucketDelete(b, order[i]), order, i + 1)

\* the same with the clearing left out
ClearBucketNone(b) == b

ClearBucket(b) == ClearFrom(b, ForEachOrder(b), 1)

\* the same with the steam id preferred to the player uid
IdentifierSteamFirst(player) ==
    IF player.steam_id # EmptyStr THEN [skip |-> FALSE, key |-> player.steam_id]
    ELSE IF player.player_uid # EmptyStr THEN [skip |-> FALSE, key |-> player.player_uid]
    ELSE [skip |-> TRUE, key |-> EmptyStr]

\* player.go:301-306 : the key PutWhitelist stores player under; skip is
\* TRUE when the loop continues without storing it
Identifier(player) ==
    IF player.player_uid # EmptyStr THEN [skip |-> FALSE, key |-> player.player_uid]
    ELSE IF player.steam_id # EmptyStr THEN [skip |-> FALSE, key |-> player.steam_id]
    ELSE [skip |-> TRUE, key |-> EmptyStr]

\* player.go:296-310 : the loop, from index i on
RECURSIVE PutEachWhitelist(_, _, _)
PutEachWhitelist(b, players, i) ==
    IF i > Len(players) THEN [err |-> Nil, bucket |-> b]
    ELSE LET id == Identifier(players[i])
         IN IF id.skip THEN PutEachWhitelist(b, players, i + 1)
            ELSE LET r == BucketPut(b, id.key, MarshalPlayerW(players[i]))
                 IN IF r.err # Nil THEN r
                    ELSE PutEachWhitelist(r.bucket, players, i + 1)

\* player.go:280-313 : the function run by db.Update
PutWhitelistTx(wl, players) ==
    LET b == ClearBucket(CreateBucketIfNotExists(wl).bucket)
        r == PutEachWhitelist(b, players, 1)
    IN [err |-> r.err, wl |-> [exists |-> TRUE, bucket |-> r.bucket]]

\* player.go:200-216 : every stored entry, in ForEach order; empty when the
\* bucket does not exist
ListWhitelistView(wl) ==
    IF ~wl.exists THEN << >>
    ELSE LET order == ForEachOrder(wl.bucket)
         IN [i \in 1..Len(order) |-> UnmarshalPlayerW(wl.bucket[order[i]])]

(***************************************************************************)
(* Inputs of the calls.                                                    *)
(***************************************************************************)
UidA == <<65, 49>>   \* "A1"
UidZ == <<66, 48, 48, 48, 48, 48, 48>>   \* "B000000"

SteamPlaceholder == <<55, 54, 53, 48, 48, 48, 48, 48, 48, 48, 48, 48, 48, 49>>   \* "76500000000001"
SteamExample == <<55, 54, 53, 54, 49, 49, 48, 48, 48, 48, 48, 48, 48, 50>>       \* "76561100000002"
SteamResolved == <<55, 54, 53, 54, 49, 49, 57, 56, 48, 49, 50, 51, 52, 53>>     \* "76561198012345"
SteamOther == <<55, 54, 53, 54, 49, 49, 57, 56, 48, 53, 52, 51, 50, 49>>        \* "76561198054321"

SaveTimeValid == <<50, 48, 50, 52, 45, 48, 49, 45, 48, 50, 84, 48, 51, 58, 48, 52, 58, 48, 53, 90>>     \* "2024-01-02T03:04:05Z"
SaveTimeInvalid == <<50, 48, 50, 52, 45, 48, 49, 45, 48, 50, 32, 48, 51, 58, 48, 52, 58, 48, 53>>   \* "2024-01-02 03:04:05"

\* the display and session fields of a snapshot, in two variants
NicknameOf(v) == <<78, 48 + v>>                           \* "N1", "N2"
IpOf(v) == <<49, 48, 46, 48, 46, 48, 46, 48 + v>>          \* "10.0.0.1", "10.0.0.2"
LastOnlineOf(v) == IF v = 1 THEN ZeroTime ELSE <<2023, 1, 1, 0, 0, 0>>

\* a database.Player handed to PutPlayers
RosterPlayer(uid, steamId, v, saveLastOnline) ==
    [player_uid |-> uid, steam_id |-> steamId, nickname |-> NicknameOf(v),
     ip |-> IpOf(v), ping |-> 10 * v, location_x |-> 100 * v, location_y |-> 200 * v,
     level |-> v, last_online |-> LastOnlineOf(v), save_last_online |-> saveLastOnline]

\* a database.OnlinePlayer handed to PutPlayersOnline
OnlinePlayer(uid, steamId, v) ==
    [player_uid |-> uid, steam_id |-> steamId, nickname |-> NicknameOf(v),
     ip |-> IpOf(v), ping |-> 10 * v, location_x |-> 100 * v, location_y |-> 200 * v,
     level |-> v]

RosterSamples ==
    {RosterPlayer(UidA, EmptyStr, 1, SaveTimeValid),
     RosterPlayer(UidA, SteamResolved, 2, SaveTimeInvalid),
     RosterPlayer(UidZ, SteamPlaceholder, 1, EmptyStr),
     RosterPlayer(EmptyStr, EmptyStr, 2, EmptyStr)}

OnlineSamples ==
    {OnlinePlayer(UidA, SteamExample, 2),
     OnlinePlayer(UidA, SteamOther, 1),
     OnlinePlayer(UidZ, SteamExample, 1),
     OnlinePlayer(EmptyStr, SteamOther, 2)}

PlayerUids == {EmptyStr, UidA, UidZ}

NameX == <<88>>        \* "X"
NameY == <<89>>        \* "Y"
WlSteam == <<83, 49>>  \* "S1"
WlUid == <<85, 49>>    \* "U1"

PlayerW(name, steamId, uid) == [name |-> name, steam_id |-> steamId, player_uid |-> uid]

\* the entries handed to AddWhitelist and RemoveWhitelist
WhitelistEntries ==
    {PlayerW(n, s, u) : n \in {EmptyStr, NameX, NameY}, s \in {EmptyStr, WlSteam},
                        u \in {EmptyStr, WlUid}}

\* the entries handed to PutWhitelist
WhitelistSamples ==
    {PlayerW(NameY, EmptyStr, EmptyStr),
     PlayerW(NameX, WlSteam, EmptyStr),
     PlayerW(NameX, EmptyStr, WlUid),
     PlayerW(NameY, WlSteam, WlUid)}

\* the slices of at most MaxBatch elements of S
Batches(S) == UNION {[1..n -> S] : n \in 0..MaxBatch}

\* the slices handed to PutPlayersOnline: those over OnlineSamples and one
\* whose snapshot carries no steam_id
OnlineBatches ==
    Batches(OnlineSamples) \cup {<<OnlinePlayer(UidZ, EmptyStr, 2)>>}

\* the slices handed to PutWhitelist: those over WhitelistSamples and two
\* where an entry's steam_id (with no player_uid) is another's player_uid
WhitelistBatches ==
    Batches(WhitelistSamples)
        \cup {<<PlayerW(NameY, WlUid, EmptyStr), PlayerW(NameX, EmptyStr, WlUid)>>,
              <<PlayerW(NameX, EmptyStr, WlUid), PlayerW(NameY, WlUid, EmptyStr)>>}

(***************************************************************************)
(* Initial state: the "players" bucket exists and is empty, the            *)
(* "whitelist" bucket does not exist.                                      *)
(***************************************************************************)
NoCall ==
    [op |-> "none", roster |-> << >>, online |-> << >>, key |-> EmptyStr,
     entries |-> << >>, err |-> Nil, terse |-> << >>, got |-> << >>, listed |-> << >>]

Init ==
    /\ db = [players |-> EmptyBucket,
             whitelist |-> [exists |-> FALSE, bucket |-> EmptyBucket]]
    /\ clock = 0
    /\ steps = 0
    /\ call = NoCall
    /\ pre = db
    /\ written = FALSE
    /\ rwlock = NoCaller
    /\ txs = << >>
    /\ commits = << >>

(***************************************************************************)
(* Calls on the player registry.                                           *)
(***************************************************************************)
PutPlayers ==
    /\ steps < MaxSteps
    /\ \E players \in Batches(RosterSamples) :
          LET r == PutPlayersTx(db.players, players)
          IN /\ db' = [db EXCEPT !.players = Update(db.players, r.bucket, r.err)]
             /\ call' = [NoCall EXCEPT !.op = "PutPlayers", !.roster = players,
                                       !.err = r.err]
    /\ pre' = db
    /\ steps' = steps + 1
    /\ UNCHANGED <<rwlock, txs, commits>>
    /\ UNCHANGED <<clock, written>>

PutPlayersOnline ==
    /\ steps < MaxSteps
    /\ \E players \in OnlineBatches :
          LET r == PutPlayersOnlineTx(db.players, players, clock)
          IN /\ db' = [db EXCEPT !.players = Update(db.players, r.bucket, r.err)]
             /\ call' = [NoCall EXCEPT !.op = "PutPlayersOnline", !.online = players,
                                       !.err = r.err]
             /\ clock' = clock + Len(players)
    /\ pre' = db
    /\ steps' = steps + 1
    /\ UNCHANGED <<rwlock, txs, commits>>
    /\ UNCHANGED written

ListPlayers ==
    /\ steps < MaxSteps
    /\ call' = [NoCall EXCEPT !.op = "ListPlayers",
                              !.terse = ListPlayersView(db.players)]
    /\ pre' = db
    /\ steps' = steps + 1
    /\ UNCHANGED <<rwlock, txs, commits>>
    /\ UNCHANGED <<db, clock, written>>

GetPlayer ==
    /\ steps < MaxSteps
    /\ \E playerUid \in PlayerUids :
          LET r == GetPlayerView(db.players, playerUid)
          IN call' = [NoCall EXCEPT !.op = "GetPlayer", !.key = playerUid,
                                    !.err = r.err, !.got = r.player]
    /\ pre' = db
    /\ steps' = steps + 1
    /\ UNCHANGED <<rwlock, txs, commits>>
    /\ UNCHANGED <<db, clock, written>>

(***************************************************************************)
(* Calls on the whitelist.                                                 *)
(***************************************************************************)
AddWhitelist ==
    /\ steps < MaxWlSteps
    /\ \E player \in WhitelistEntries :
          LET r == AddWhitelistTx(db.whitelist, player)
          IN /\ db' = [db EXCEPT !.whitelist = Update(db.whitelist, r.wl, r.err)]
             /\ call' = [NoCall EXCEPT !.op = "AddWhitelist", !.entries = <<player>>,
                                       !.err = r.err]
    /\ pre' = db
    /\ steps' = steps + 1
    /\ UNCHANGED <<rwlock, txs, commits>>
    /\ written' = TRUE
    /\ UNCHANGED clock

RemoveWhitelist ==
    /\ steps < MaxWlSteps
    /\ \E player \in WhitelistEntries :
          LET r == RemoveWhitelistTx(db.whitelist, player)
          IN /\ db' = [db EXCEPT !.whitelist = Update(db.whitelist, r.wl, r.err)]
             /\ call' = [NoCall EXCEPT !.op = "RemoveWhitelist", !.entries = <<player>>,
                                       !.err = r.err]
    /\ pre' = db
    /\ steps' = steps + 1
    /\ UNCHANGED <<rwlock, txs, commits>>
    /\ UNCHANGED <<clock, written>>

PutWhitelist ==
    /\ steps < MaxWlSteps
    /\ \E players \in WhitelistBatches :
          LET r == PutWhitelistTx(db.whitelist, players)
          IN /\ db' = [db EXCEPT !.whitelist = Update(db.whitelist, r.wl, r.err)]
             /\ call' = [NoCall EXCEPT !.op = "PutWhitelist", !.entries = players,
                                       !.err = r.err]
    /\ pre' = db
    /\ steps' = steps + 1
    /\ UNCHANGED <<rwlock, txs, commits>>
    /\ written' = TRUE
    /\ UNCHANGED clock

ListWhitelist ==
    /\ steps < MaxWlSteps
    /\ call' = [NoCall EXCEPT !.op = "ListWhitelist",
                              !.listed = ListWhitelistView(db.whitelist)]
    /\ pre' = db
    /\ steps' = steps + 1
    /\ UNCHANGED <<rwlock, txs, commits>>
    /\ UNCHANGED <<db, clock, written>>

(***************************************************************************)
(* Specifications.  The two components share no bucket, so each is         *)
(* explored on its own: Spec is the player registry, WhitelistSpec the     *)
(* whitelist.                                                              *)
(***************************************************************************)
Next == PutPlayers \/ PutPlayersOnline \/ ListPlayers \/ GetPlayer

Spec == Init /\ [][Next]_vars

WhitelistNext == AddWhitelist \/ RemoveWhitelist \/ PutWhitelist \/ ListWhitelist

WhitelistSpec == Init /\ [][WhitelistNext]_vars

\* the whitelist written only by AddWhitelist and RemoveWhitelist
AddRemoveNext == AddWhitelist \/ RemoveWhitelist

AddRemoveSpec == Init /\ [][AddRemoveNext]_vars

(***************************************************************************)
(* Concurrent callers.  Each caller makes one call.  db.Update takes the   *)
(* writer lock of the database, runs the function on a transaction that    *)
(* starts from the committed database, and commits or rolls back when the  *)
(* function returns; db.View reads the database as committed when it       *)
(* began.  A step is one iteration of a loop of the function.              *)
(***************************************************************************)
Writers == {"w1", "w2"}
Callers == Writers \cup {"r"}

\* the same without the wait for the writer lock
CanLockAlways(holder) == TRUE

\* db.Update waits until no other caller is inside db.Update
CanLock(holder) == holder = NoCaller

\* a call that has not started
IdleTx(c) ==
    [call |-> c, pc |-> "idle", i |-> 0,
     root |-> [players |-> EmptyBucket,
               whitelist |-> [exists |-> FALSE, bucket |-> EmptyBucket]],
     existingPlayers |-> << >>]

\* the databases the concurrent calls start from: the empty one, and the one
\* left by a PutPlayers and an AddWhitelist
ConcSeeds ==
    {[players |-> EmptyBucket, whitelist |-> [exists |-> FALSE, bucket |-> EmptyBucket]],
     [players |-> PutPlayersTx(EmptyBucket,
                       <<RosterPlayer(UidA, SteamResolved, 2, SaveTimeInvalid)>>).bucket,
      whitelist |-> AddWhitelistTx([exists |-> FALSE, bucket |-> EmptyBucket],
                                   PlayerW(NameX, WlSteam, EmptyStr)).wl]}

ConcRosters ==
    Batches({RosterPlayer(UidZ, SteamPlaceholder, 1, EmptyStr),
             RosterPlayer(EmptyStr, EmptyStr, 2, EmptyStr)})

ConcOnline ==
    Batches({OnlinePlayer(UidA, SteamExample, 2), OnlinePlayer(UidZ, SteamExample, 1)})

ConcEntries == {PlayerW(NameX, EmptyStr, WlUid), PlayerW(NameY, WlSteam, EmptyStr)}

ConcWhitelists ==
    Batches({PlayerW(NameX, EmptyStr, WlUid), PlayerW(NameY, WlSteam, WlUid)})

\* the calls made concurrently: PutPlayers and PutPlayersOnline next to
\* ListPlayers, or AddWhitelist and PutWhitelist next to ListWhitelist
ConcCalls ==
    {[w1 |-> [NoCall EXCEPT !.op = "PutPlayers", !.roster = players],
      w2 |-> [NoCall EXCEPT !.op = "PutPlayersOnline", !.online = online],
      r |-> [NoCall EXCEPT !.op = "ListPlayers"]] :
         players \in ConcRosters, online \in ConcOnline}
    \cup
    {[w1 |-> [NoCall EXCEPT !.op = "AddWhitelist", !.entries = <<player>>],
      w2 |-> [NoCall EXCEPT !.op = "PutWhitelist", !.entries = players],
      r |-> [NoCall EXCEPT !.op = "ListWhitelist"]] :
         player \in ConcEntries, players \in ConcWhitelists}

ConcInit ==
    /\ db \in ConcSeeds
    /\ clock = 0
    /\ steps = 0
    /\ call = NoCall
    /\ pre = db
    /\ written = db.whitelist.exists
    /\ rwlock = NoCaller
    /\ commits = <<db>>
    /\ \E calls \in ConcCalls : txs = [c \in Callers |-> IdleTx(calls[c])]

\* db.Update begins: the caller takes the writer lock and the transaction
\* starts from the committed database.  PutPlayers reads the stored players
\* (player.go:18-29); PutWhitelist creates and clears the bucket
\* (player.go:282-294).
BeginUpdate(c) ==
    /\ txs[c].pc = "idle"
    /\ CanLock(rwlock)
    /\ rwlock' = c
    /\ txs' = [txs EXCEPT ![c] =
                 [@ EXCEPT !.pc = "run",
                           !.i = 1,
                           !.root = IF txs[c].call.op = "PutWhitelist"
                                    THEN [db EXCEPT !.whitelist =
                                            [exists |-> TRUE,
                                             bucket |-> ClearBucket(
                                                 CreateBucketIfNotExists(db.whitelist).bucket)]]
                                    ELSE db,
                           !.existingPlayers = IF txs[c].call.op = "PutPlayers"
                                               THEN ExistingPlayers(db.players)
                                               ELSE << >>]]
    /\ UNCHANGED <<db, clock, steps, call, pre, written, commits>>

\* the transaction t after b.Put returned r in the loop over the players
PutStep(t, r) ==
    IF r.err # Nil THEN [t EXCEPT !.call.err = r.err, !.pc = "return"]
    ELSE [t EXCEPT !.root.players = r.bucket, !.i = @ + 1]

\* the transaction t after the next iteration of its function, now being
\* the time time.Now() returns
TxStep(t, now) ==
    IF t.call.op = "PutPlayers"
    THEN IF t.i <= Len(t.call.roster)
         THEN LET p == MergePlayer(t.call.roster[t.i], t.existingPlayers)
              IN PutStep(t, BucketPut(t.root.players, p.player_uid, MarshalPlayer(p)))
         ELSE [t EXCEPT !.root.players =
                            DeleteEach(@, StalePlayerUids(t.existingPlayers, t.call.roster)),
                        !.pc = "return"]
    ELSE IF t.call.op = "PutPlayersOnline"
    THEN IF t.i <= Len(t.call.online)
         THEN LET p == t.call.online[t.i]
                  player == OnlineRecord(t.root.players, p, now)
              IN PutStep(t, BucketPut(t.root.players, p.player_uid, MarshalPlayer(player)))
         ELSE [t EXCEPT !.pc = "return"]
    ELSE IF t.call.op = "AddWhitelist"
    THEN LET r == AddWhitelistTx(t.root.whitelist, t.call.entries[1])
         IN [t EXCEPT !.root.whitelist = r.wl, !.call.err = r.err, !.pc = "return"]
    ELSE IF t.i <= Len(t.call.entries)
         THEN LET id == Identifier(t.call.entries[t.i])
                  r == BucketPut(t.root.whitelist.bucket, id.key,
                                 MarshalPlayerW(t.call.entries[t.i]))
              IN IF id.skip THEN [t EXCEPT !.i = @ + 1]
                 ELSE IF r.err # Nil THEN [t EXCEPT !.call.err = r.err, !.pc = "return"]
                 ELSE [t EXCEPT !.root.whitelist.bucket = r.bucket, !.i = @ + 1]
         ELSE [t EXCEPT !.pc = "return"]

RunUpdate(c) ==
    /\ c \in Writers
    /\ txs[c].pc = "run"
    /\ txs' = [txs EXCEPT ![c] = TxStep(@, ClockTime(clock))]
    /\ clock' = IF txs[c].call.op = "PutPlayersOnline" /\ txs[c].i <= Len(txs[c].call.online)
                THEN clock + 1 ELSE clock
    /\ UNCHANGED <<db, steps, call, pre, written, rwlock, commits>>

\* db.Update returns: commit when the function returned nil, else roll back
ReturnUpdate(c) ==
    /\ txs[c].pc = "return"
    /\ db' = Update(db, txs[c].root, txs[c].call.err)
    /\ commits' = Append(commits, db')
    /\ rwlock' = NoCaller
    /\ txs' = [txs EXCEPT ![c].pc = "done"]
    /\ UNCHANGED <<clock, steps, call, pre, written>>

\* db.View begins: the transaction reads the database as committed now
BeginView ==
    /\ txs["r"].pc = "idle"
    /\ txs' = [txs EXCEPT !["r"] = [@ EXCEPT !.pc = "run", !.i = 1, !.root = db]]
    /\ UNCHANGED <<db, clock, steps, call, pre, written, rwlock, commits>>

\* the reading transaction t after the next key of b.ForEach
ViewStep(t) ==
    IF t.call.op = "ListPlayers"
    THEN LET order == ForEachOrder(t.root.players)
         IN IF t.i > Len(order) THEN [t EXCEPT !.pc = "done"]
            ELSE [t EXCEPT !.i = @ + 1,
                           !.call.terse =
                               IF IsListedKey(order[t.i])
                               THEN Append(@, UnmarshalTerse(t.root.players[order[t.i]]))
                               ELSE @]
    ELSE LET order == ForEachOrder(t.root.whitelist.bucket)
         IN IF ~t.root.whitelist.exists \/ t.i > Len(order) THEN [t EXCEPT !.pc = "done"]
            ELSE [t EXCEPT !.i = @ + 1,
                           !.call.listed =
                               Append(@, UnmarshalPlayerW(t.root.whitelist.bucket[order[t.i]]))]

RunView ==
    /\ txs["r"].pc = "run"
    /\ txs' = [txs EXCEPT !["r"] = ViewStep(@)]
    /\ UNCHANGED <<db, clock, steps, call, pre, written, rwlock, commits>>

ConcNext ==
    \/ \E c \in Writers : BeginUpdate(c)
    \/ \E c \in Writers : RunUpdate(c)
    \/ \E c \in Writers : ReturnUpdate(c)
    \/ BeginView
    \/ RunView

ConcSpec == ConcInit /\ [][ConcNext]_vars

(***************************************************************************)
(* Properties of the player registry, checked under Spec.                  *)
(***************************************************************************)
\* the record stored under key k of the players bucket b
StoredPlayer(b, k) == UnmarshalPlayer(b[k])

\* the player_uid values of a slice of snapshots
UidsOf(players) == {players[i].player_uid : i \in 1..Len(players)}

\* the index of the last snapshot of the slice that carries uid u
LastIndexOf(players, u) ==
    CHOOSE i \in 1..Len(players) :
        /\ players[i].player_uid = u
        /\ \A j \in (i + 1)..Len(players) : players[j].player_uid # u

\* how many snapshots of the slice carry uid u
Occurrences(players, u) == Cardinality({i \in 1..Len(players) : players[i].player_uid = u})

\* C1: after a successful PutPlayers(R) the keys of the players bucket are
\* exactly the player_uid values of R.
C1_RosterKeySet ==
    (call.op = "PutPlayers" /\ call.err = Nil)
        => Keys(db.players) = UidsOf(call.roster)

\* C1 witness: a successful PutPlayers whose roster names one uid twice,
\* creates it, and drops a uid stored before.
C1_Witness ==
    /\ call.op = "PutPlayers" /\ call.err = Nil
    /\ Len(call.roster) = 2
    /\ call.roster[1].player_uid = call.roster[2].player_uid
    /\ call.roster[1].player_uid \notin Keys(pre.players)
    /\ Keys(pre.players) \ UidsOf(call.roster) # {}

\* C2: after a successful PutPlayers, a uid stored before and named by the
\* roster keeps the stored ip, ping, location_x and location_y, and takes
\* nickname and level from its (last) incoming snapshot.
C2_SessionCarryForward ==
    (call.op = "PutPlayers" /\ call.err = Nil)
        => \A u \in Keys(pre.players) \cap UidsOf(call.roster) :
              LET old == StoredPlayer(pre.players, u)
                  new == StoredPlayer(db.players, u)
                  p == call.roster[LastIndexOf(call.roster, u)]
              IN /\ new.ip = old.ip
                 /\ new.ping = old.ping
                 /\ new.location_x = old.location_x
                 /\ new.location_y = old.location_y
                 /\ new.nickname = p.nickname
                 /\ new.level = p.level

\* C2 witness: the incoming snapshot carries another ip, ping, location and
\* nickname than the stored record.
C2_Witness ==
    /\ call.op = "PutPlayers" /\ call.err = Nil
    /\ \E u \in Keys(pre.players) \cap UidsOf(call.roster) :
          LET old == StoredPlayer(pre.players, u)
              p == call.roster[LastIndexOf(call.roster, u)]
          IN /\ p.ip # old.ip /\ p.ping # old.ping
             /\ p.location_x # old.location_x /\ p.location_y # old.location_y
             /\ p.nickname # old.nickname /\ p.level # old.level
             /\ StoredPlayer(db.players, u).ip = old.ip

\* C3 as claimed: a stored steam_id "76561100000002" is a resolved id, so a
\* PutPlayersOnline snapshot carrying another steam_id leaves it unchanged.
C3_ExampleIdIsKept ==
    (call.op = "PutPlayersOnline" /\ call.err = Nil)
        => \A u \in Keys(pre.players) \cap UidsOf(call.online) :
              StoredPlayer(pre.players, u).steam_id = SteamExample
                  => StoredPlayer(db.players, u).steam_id = SteamExample

\* C3 amended: PutPlayersOnline keeps a stored steam_id that is non-empty
\* and does not contain "000000", whatever the snapshots carry; a stored
\* steam_id that is empty or contains "000000" -- the placeholder
\* "76500000000001" and also "76561100000002" -- is replaced by a steam_id
\* of the batch, the snapshot's own when the uid occurs once in the batch.
C3_SteamIdUpgrade ==
    (call.op = "PutPlayersOnline" /\ call.err = Nil)
        => \A u \in Keys(pre.players) \cap UidsOf(call.online) :
              LET old == StoredPlayer(pre.players, u).steam_id
                  new == StoredPlayer(db.players, u).steam_id
                  kept == old # EmptyStr /\ ~Contains(old, <<48, 48, 48, 48, 48, 48>>)
              IN /\ kept => new = old
                 /\ ~kept => \E i \in 1..Len(call.online) :
                                /\ call.online[i].player_uid = u
                                /\ new = call.online[i].steam_id
                 /\ (~kept /\ Occurrences(call.online, u) = 1)
                       => new = call.online[LastIndexOf(call.online, u)].steam_id
                 /\ (old = SteamPlaceholder /\ Occurrences(call.online, u) = 1)
                       => new = call.online[LastIndexOf(call.online, u)].steam_id

\* C3 witness: one batch meets a stored resolved id, which it leaves alone
\* although its snapshot carries another one, and a stored placeholder,
\* which it replaces.
C3_Witness ==
    /\ call.op = "PutPlayersOnline" /\ call.err = Nil
    /\ \E u \in Keys(pre.players) \cap UidsOf(call.online) :
          /\ StoredPlayer(pre.players, u).steam_id = SteamResolved
          /\ call.online[LastIndexOf(call.online, u)].steam_id # SteamResolved
          /\ StoredPlayer(db.players, u).steam_id = SteamResolved
    /\ \E u \in Keys(pre.players) \cap UidsOf(call.online) :
          /\ StoredPlayer(pre.players, u).steam_id = SteamPlaceholder
          /\ StoredPlayer(db.players, u).steam_id = SteamExample

\* C4: a PutPlayers that fails leaves the database as it was before the call.
C4_FailedRosterIsRolledBack ==
    (call.op = "PutPlayers" /\ call.err # Nil) => db = pre

\* C4 witness: the call failed on a snapshot with an empty player_uid after
\* it had written an earlier snapshot over a non-empty bucket.
C4_Witness ==
    /\ call.op = "PutPlayers" /\ call.err = ErrKeyRequired
    /\ Keys(pre.players) # {}
    /\ Len(call.roster) = 2
    /\ call.roster[1].player_uid # EmptyStr
    /\ call.roster[2].player_uid = EmptyStr
    /\ PutPlayersTx(pre.players, call.roster).bucket # pre.players
    /\ db = pre

\* C8: ListPlayers returns the projection of exactly the stored records
\* whose key does not contain "000000"; a record whose key contains it is
\* not listed, and GetPlayer with that key returns it.
TerseFields == {"player_uid", "steam_id", "nickname", "level", "last_online"}

Projection(rec) == [f \in TerseFields |-> rec[f]]

Range(seq) == {seq[i] : i \in 1..Len(seq)}

C8_PlaceholderKeysNotListed ==
    LET b == db.players
        listed == ListPlayersView(b)
        plain == {k \in Keys(b) : ~Contains(k, <<48, 48, 48, 48, 48, 48>>)}
    IN /\ Range(listed) = {Projection(StoredPlayer(b, k)) : k \in plain}
       /\ Len(listed) = Cardinality(plain)
       /\ \A k \in Keys(b) \ plain :
             /\ \A i \in 1..Len(listed) : listed[i].player_uid # k
             /\ GetPlayerView(b, k).err = Nil
             /\ GetPlayerView(b, k).player = <<StoredPlayer(b, k)>>
       /\ call.op = "ListPlayers" => call.terse = listed
       /\ (call.op = "GetPlayer" /\ call.key \in Keys(b))
             => (call.err = Nil /\ call.got = <<StoredPlayer(b, call.key)>>)

\* C8 witness: GetPlayer has returned a record stored under a key that
\* contains "000000", next to a record that ListPlayers lists.
C8_Witness ==
    /\ call.op = "GetPlayer" /\ call.err = Nil
    /\ call.key = UidZ
    /\ Contains(call.key, ZeroPattern)
    /\ Len(call.got) = 1 /\ call.got[1].player_uid = UidZ
    /\ UidA \in Keys(db.players)
    /\ Len(ListPlayersView(db.players)) = 1

\* C9: PutPlayersOnline removes no key, and leaves every stored record
\* whose player_uid the batch does not name as it was.
C9_OnlineNeverDeletes ==
    call.op = "PutPlayersOnline"
        => /\ Keys(pre.players) \subseteq Keys(db.players)
           /\ \A k \in Keys(pre.players) :
                 StoredPlayer(pre.players, k).player_uid \notin UidsOf(call.online)
                     => db.players[k] = pre.players[k]

\* C9 witness: a successful batch rewrote one stored record and left
\* another, which it does not name, in place.
C9_Witness ==
    /\ call.op = "PutPlayersOnline" /\ call.err = Nil
    /\ \E k \in Keys(pre.players) : k \notin UidsOf(call.online)
    /\ \E k \in Keys(pre.players) : k \in UidsOf(call.online) /\ db.players[k] # pre.players[k]

(***************************************************************************)
(* Properties of the whitelist, checked under WhitelistSpec and, for the   *)
(* states written by AddWhitelist and RemoveWhitelist alone, AddRemoveSpec.*)
(***************************************************************************)
\* the entry stored under key k of the whitelist bucket b
StoredEntry(b, k) == UnmarshalPlayerW(b[k])

\* two entries share a non-empty player_uid, name or steam_id
SharesIdentifier(a, e) ==
    \/ a.player_uid # EmptyStr /\ a.player_uid = e.player_uid
    \/ a.name # EmptyStr /\ a.name = e.name
    \/ a.steam_id # EmptyStr /\ a.steam_id = e.steam_id

\* the keys of b whose entry shares an identifier with e
MatchingKeys(b, e) == {k \in Keys(b) : SharesIdentifier(StoredEntry(b, k), e)}

\* the first key of a non-empty set of keys in the store's key order
FirstKey(ks) == CHOOSE k \in ks : \A o \in ks \ {k} : KeyLess(k, o)

\* C5: when a stored entry shares an identifier with the entry given to
\* AddWhitelist, the number of stored entries does not change, the first
\* matching entry in key order keeps its key and holds the given entry,
\* and ListWhitelist contains the given entry.
C5_AddUpdatesFirstMatch ==
    call.op = "AddWhitelist"
        => LET e == call.entries[1]
               old == pre.whitelist.bucket
               new == db.whitelist.bucket
               hits == MatchingKeys(old, e)
           IN hits # {}
                 => /\ call.err = Nil
                    /\ Cardinality(Keys(new)) = Cardinality(Keys(old))
                    /\ FirstKey(hits) \in Keys(new)
                    /\ StoredEntry(new, FirstKey(hits)) = e
                    /\ e \in Range(ListWhitelistView(db.whitelist))

\* C5 witness: two stored entries share an identifier with the given
\* entry, and the first of them held something else before.
C5_Witness ==
    /\ call.op = "AddWhitelist" /\ call.err = Nil
    /\ LET e == call.entries[1]
           hits == MatchingKeys(pre.whitelist.bucket, e)
       IN /\ Cardinality(hits) = 2
          /\ StoredEntry(pre.whitelist.bucket, FirstKey(hits)) # e
          /\ StoredEntry(db.whitelist.bucket, FirstKey(hits)) = e

\* C6: no two distinct stored entries share a non-empty player_uid, name
\* or steam_id (checked under AddRemoveSpec).
C6_NoTwoEntriesMatch ==
    \A k1 \in Keys(db.whitelist.bucket) : \A k2 \in Keys(db.whitelist.bucket) :
        k1 # k2 => ~SharesIdentifier(StoredEntry(db.whitelist.bucket, k1),
                                     StoredEntry(db.whitelist.bucket, k2))

\* C7: after a successful PutWhitelist every stored entry is one of the
\* given entries that has a player_uid or a steam_id: nothing stored before
\* stays unless given again, and no given entry without both is stored.
C7_ReplaceAllClears ==
    (call.op = "PutWhitelist" /\ call.err = Nil)
        => LET new == db.whitelist.bucket
               keyed == {e \in Range(call.entries) :
                            e.player_uid # EmptyStr \/ e.steam_id # EmptyStr}
           IN /\ \A k \in Keys(new) : StoredEntry(new, k) \in keyed
              /\ \A k \in Keys(pre.whitelist.bucket) :
                    StoredEntry(pre.whitelist.bucket, k) \notin Range(call.entries)
                        => StoredEntry(pre.whitelist.bucket, k)
                              \notin Range(ListWhitelistView(db.whitelist))
              /\ \A e \in Range(call.entries) \ keyed :
                    e \notin Range(ListWhitelistView(db.whitelist))
              /\ keyed = {} => Keys(new) = {}

\* C7 witness: PutWhitelist, given only an entry with a name and nothing
\* else, has emptied a whitelist that held an entry.
C7_Witness ==
    /\ call.op = "PutWhitelist" /\ call.err = Nil
    /\ call.entries = <<PlayerW(NameY, EmptyStr, EmptyStr)>>
    /\ Keys(pre.whitelist.bucket) # {}
    /\ Keys(db.whitelist.bucket) = {}

\* C10: RemoveWhitelist fails with the missing-bucket error exactly when
\* no AddWhitelist or PutWhitelist has been called before, fails with the
\* not-found error when the bucket exists and no stored entry matches, and
\* leaves the whitelist unchanged in both cases; otherwise it deletes
\* exactly one stored entry, one that matches, and leaves the others.
C10_RemoveOutcomes ==
    call.op = "RemoveWhitelist"
        => LET e == call.entries[1]
               old == pre.whitelist.bucket
               new == db.whitelist.bucket
               hits == MatchingKeys(old, e)
           IN /\ call.err = ErrBucketMissing <=> ~written
              /\ (written /\ hits = {}) => call.err = ErrNotInWhitelist
              /\ call.err = ErrNotInWhitelist => (written /\ hits = {})
              /\ call.err # Nil => db = pre
              /\ (written /\ hits # {})
                    => /\ call.err = Nil
                       /\ \E k \in hits :
                             /\ Keys(new) = Keys(old) \ {k}
                             /\ \A o \in Keys(new) : new[o] = old[o]

\* C10 witness: RemoveWhitelist has deleted one of two stored entries.
C10_Witness ==
    /\ call.op = "RemoveWhitelist" /\ call.err = Nil
    /\ Cardinality(Keys(pre.whitelist.bucket)) = 2
    /\ Cardinality(Keys(db.whitelist.bucket)) = 1

\* an entry has a non-empty name, steam_id or player_uid
HasIdentifier(e) == e.name # EmptyStr \/ e.steam_id # EmptyStr \/ e.player_uid # EmptyStr

\* C12: every stored whitelist entry has a non-empty name, steam_id or
\* player_uid.
C12_StoredEntriesHaveIdentifier ==
    \A k \in Keys(db.whitelist.bucket) : HasIdentifier(StoredEntry(db.whitelist.bucket, k))

\* C13: when no stored entry shares an identifier with the entry given to
\* AddWhitelist, the entry is stored under name|steam_id|player_uid, the
\* number of stored entries grows by one, and every entry stored before is
\* still stored with its value.
C13_AddInsertsNewEntry ==
    call.op = "AddWhitelist"
        => LET e == call.entries[1]
               old == pre.whitelist.bucket
               new == db.whitelist.bucket
               composite == e.name \o <<124>> \o e.steam_id \o <<124>> \o e.player_uid
           IN MatchingKeys(old, e) = {}
                 => /\ call.err = Nil
                    /\ composite \in Keys(new)
                    /\ StoredEntry(new, composite) = e
                    /\ Cardinality(Keys(new)) = Cardinality(Keys(old)) + 1
                    /\ \A k \in Keys(old) : k \in Keys(new) /\ new[k] = old[k]

\* the key PutWhitelist files an entry under: its player_uid, else its steam_id
StorageKey(e) == IF e.player_uid # EmptyStr THEN e.player_uid ELSE e.steam_id

\* the entry has a player_uid or a steam_id
IsKeyed(e) == e.player_uid # EmptyStr \/ e.steam_id # EmptyStr

\* C14 as claimed: after a successful PutWhitelist every given entry that
\* has a player_uid or a steam_id is in the ListWhitelist output.
C14_EveryKeyedEntryListed ==
    (call.op = "PutWhitelist" /\ call.err = Nil)
        => \A i \in 1..Len(call.entries) :
              IsKeyed(call.entries[i])
                  => call.entries[i] \in Range(ListWhitelistView(db.whitelist))

\* C14 amended: after a successful PutWhitelist a given entry that has a
\* player_uid or a steam_id is in the ListWhitelist output when no later
\* entry of the list is filed under the same key (its player_uid, else its
\* steam_id); of the entries filed under one key the last one is listed,
\* and nothing else is.
C14_LastEntryPerKeyListed ==
    (call.op = "PutWhitelist" /\ call.err = Nil)
        => LET given == call.entries
               listed == ListWhitelistView(db.whitelist)
               isLast(i) == /\ IsKeyed(given[i])
                            /\ \A j \in (i + 1)..Len(given) :
                                  IsKeyed(given[j]) => StorageKey(given[j]) # StorageKey(given[i])
           IN /\ Range(listed) = {given[i] : i \in {j \in 1..Len(given) : isLast(j)}}
              /\ \A i \in 1..Len(given) : isLast(i) => given[i] \in Range(listed)
              /\ Len(listed) = Cardinality({StorageKey(given[i]) :
                                               i \in {j \in 1..Len(given) : IsKeyed(given[j])}})

\* C14 witness: two given entries carry the same player_uid, and only the
\* later one is listed.
C14_Witness ==
    /\ call.op = "PutWhitelist" /\ call.err = Nil
    /\ Len(call.entries) = 2
    /\ call.entries[1] # call.entries[2]
    /\ call.entries[1].player_uid # EmptyStr
    /\ call.entries[1].player_uid = call.entries[2].player_uid
    /\ ListWhitelistView(db.whitelist) = <<call.entries[2]>>

\* C20: AddWhitelist is idempotent: once AddWhitelist(e) has returned,
\* calling AddWhitelist(e) again leaves the keys and values of the
\* whitelist as they are.
C20_AddIsIdempotent ==
    call.op = "AddWhitelist"
        => LET again == AddWhitelistTx(db.whitelist, call.entries[1])
           IN /\ again.err = Nil
              /\ Update(db.whitelist, again.wl, again.err) = db.whitelist

\* C20 witness: the second of two equal calls: it found the entry stored
\* next to another entry and changed nothing.
C20_Witness ==
    /\ call.op = "AddWhitelist" /\ call.err = Nil
    /\ db = pre
    /\ Cardinality(Keys(db.whitelist.bucket)) = 2
    /\ call.entries[1] \in Range(ListWhitelistView(db.whitelist))
    /\ Cardinality(MatchingKeys(db.whitelist.bucket, call.entries[1])) = 2

\* C15: PutPlayers stores, for a uid that had a record, the stored steam_id
\* when the incoming steam_id is empty and the incoming steam_id when it is
\* not; for a uid that had no record it stores the incoming steam_id.
C15_RosterSteamId ==
    (call.op = "PutPlayers" /\ call.err = Nil)
        => \A u \in UidsOf(call.roster) :
              LET p == call.roster[LastIndexOf(call.roster, u)]
                  stored == StoredPlayer(db.players, u).steam_id
              IN IF u \in Keys(pre.players)
                 THEN /\ p.steam_id = EmptyStr
                            => stored = StoredPlayer(pre.players, u).steam_id
                      /\ p.steam_id # EmptyStr => stored = p.steam_id
                 ELSE stored = p.steam_id

\* C15 witness: the roster brings a steam id for a uid stored with a
\* different steam id that has no run of zeros, and the incoming one is kept.
C15_Witness ==
    /\ call.op = "PutPlayers" /\ call.err = Nil
    /\ \E u \in UidsOf(call.roster) \cap Keys(pre.players) :
          LET old == StoredPlayer(pre.players, u).steam_id
              p == call.roster[LastIndexOf(call.roster, u)]
          IN /\ old # EmptyStr /\ ~Contains(old, ZeroPattern)
             /\ p.steam_id # EmptyStr /\ p.steam_id # old
             /\ StoredPlayer(db.players, u).steam_id = p.steam_id

\* C16: a save_last_online that is not an RFC3339 timestamp does not make
\* PutPlayers fail (it fails only on an empty player uid) and the record is
\* stored with the snapshot's own last_online; with the timestamp
\* "2024-01-02T03:04:05Z" the record is stored with that time.
C16_SaveLastOnline ==
    call.op = "PutPlayers"
        => /\ call.err # Nil
                 => \E i \in 1..Len(call.roster) : call.roster[i].player_uid = EmptyStr
           /\ call.err = Nil
                 => \A u \in UidsOf(call.roster) :
                       LET p == call.roster[LastIndexOf(call.roster, u)]
                           stored == StoredPlayer(db.players, u).last_online
                       IN /\ p.save_last_online = SaveTimeInvalid
                                => stored = p.last_online
                          /\ p.save_last_online = SaveTimeValid
                                => stored = <<2024, 1, 2, 3, 4, 5>>

\* C16 witness: a record whose last_online was set by PutPlayersOnline is
\* replaced by a snapshot with an unparsable save_last_online, and the
\* record then carries the snapshot's last_online.
C16_Witness ==
    /\ call.op = "PutPlayers" /\ call.err = Nil
    /\ \E u \in UidsOf(call.roster) \cap Keys(pre.players) :
          LET p == call.roster[LastIndexOf(call.roster, u)]
              old == StoredPlayer(pre.players, u).last_online
          IN /\ p.save_last_online = SaveTimeInvalid
             /\ old = ClockTime(0)
             /\ old # p.last_online
             /\ StoredPlayer(db.players, u).last_online = p.last_online

\* C17: every stored record carries the player uid it is stored under.
C17_UidIsKey ==
    \A k \in Keys(db.players) : StoredPlayer(db.players, k).player_uid = k

\* C17 witness: PutPlayersOnline has updated one stored record and created
\* another.
C17_Witness ==
    /\ call.op = "PutPlayersOnline" /\ call.err = Nil
    /\ Cardinality(Keys(db.players)) = 2
    /\ Cardinality(Keys(pre.players)) = 1
    /\ Keys(pre.players) \subseteq {call.online[i].player_uid : i \in 1..Len(call.online)}

\* C18: a record that is stored before and after a call with a non-empty
\* steam_id before has a non-empty steam_id after.
C18_SteamIdNeverErased ==
    \A k \in Keys(pre.players) \cap Keys(db.players) :
        StoredPlayer(pre.players, k).steam_id # EmptyStr
            => StoredPlayer(db.players, k).steam_id # EmptyStr

\* C19: PutPlayers is idempotent: once PutPlayers(R) has returned, calling
\* PutPlayers(R) again leaves the players collection as it is.
C19_RosterIsIdempotent ==
    call.op = "PutPlayers"
        => LET again == PutPlayersTx(db.players, call.roster)
           IN /\ again.err = call.err
              /\ Update(db.players, again.bucket, again.err) = db.players

\* C19 witness: the second of two equal calls with a roster of two uids:
\* the collection holds exactly the two records and the call changes nothing.
C19_Witness ==
    /\ call.op = "PutPlayers" /\ call.err = Nil
    /\ db = pre
    /\ Len(call.roster) = 2
    /\ Keys(db.players) = UidsOf(call.roster)
    /\ Cardinality(Keys(db.players)) = 2

\* the database after call c has run alone on the database d, its first
\* time.Now() returning the tick-th second
ApplyCall(d, c, tick) ==
    IF c.op = "PutPlayers"
    THEN LET r == PutPlayersTx(d.players, c.roster)
         IN [d EXCEPT !.players = Update(d.players, r.bucket, r.err)]
    ELSE IF c.op = "PutPlayersOnline"
    THEN LET r == PutPlayersOnlineTx(d.players, c.online, tick)
         IN [d EXCEPT !.players = Update(d.players, r.bucket, r.err)]
    ELSE IF c.op = "AddWhitelist"
    THEN LET r == AddWhitelistTx(d.whitelist, c.entries[1])
         IN [d EXCEPT !.whitelist = Update(d.whitelist, r.wl, r.err)]
    ELSE LET r == PutWhitelistTx(d.whitelist, c.entries)
         IN [d EXCEPT !.whitelist = Update(d.whitelist, r.wl, r.err)]

\* what the reading call c returns on the database d
ListOf(d, c) ==
    IF c.op = "ListPlayers" THEN ListPlayersView(d.players)
    ELSE ListWhitelistView(d.whitelist)

\* what the reading call c has returned
Returned(c) == IF c.op = "ListPlayers" THEN c.terse ELSE c.listed

\* C11: with two writing calls and a listing call made concurrently, the
\* committed database is at every moment the one that the writing calls
\* finished so far leave when run one after the other in some order, and
\* the listing call returns the list of the database as committed at the
\* start or after one of the writing calls.
C11_SerializedWrites ==
    LET seed == commits[1]
        c1 == txs["w1"].call
        c2 == txs["w2"].call
        d1 == ApplyCall(seed, c1, 0)
        d2 == ApplyCall(seed, c2, 0)
        d12 == ApplyCall(d1, c2, 0)
        d21 == ApplyCall(d2, c1, 0)
        done(c) == txs[c].pc = "done"
    IN /\ db \in (IF done("w1") /\ done("w2") THEN {d12, d21}
                  ELSE IF done("w1") THEN {d1}
                  ELSE IF done("w2") THEN {d2}
                  ELSE {seed})
       /\ db = commits[Len(commits)]
       /\ done("r") => \E k \in 1..Len(commits) :
                          Returned(txs["r"].call) = ListOf(commits[k], txs["r"].call)

\* C11 witness: the order of the two writing calls matters, both have
\* committed, and the listing call, which began between the two commits,
\* returned the list of the database after the first one.
C11_Witness ==
    LET c1 == txs["w1"].call
        c2 == txs["w2"].call
        r == txs["r"].call
    IN /\ \A c \in Callers : txs[c].pc = "done"
       /\ Len(commits) = 3
       /\ ApplyCall(ApplyCall(commits[1], c1, 0), c2, 0)
             # ApplyCall(ApplyCall(commits[1], c2, 0), c1, 0)
       /\ Returned(r) = ListOf(commits[2], r)
       /\ Returned(r) # ListOf(commits[1], r)
       /\ Returned(r) # ListOf(commits[3], r)

====
